---------------------------- MODULE Spec2Model ----------------------------
(***************************************************************************)
(* A model of webwatch.py: one run of main() after another over the       *)
(* config file and the state file, together with the pure helpers         *)
(* (make_diff, clamp_text, sha256, should_alert_now, fetch_with_retries). *)
(*                                                                         *)
(* A text is a sequence of one-character strings; "\n" is the only line   *)
(* boundary of the alphabet.  A Python dict is a function whose DOMAIN is *)
(* the set of its keys, so dict.get(k) is None exactly when k is not in   *)
(* the DOMAIN.  time.time() is a clock counted in ticks of 1/TicksPerSec  *)
(* second; int(time.time()) truncates it to whole seconds.                *)
(*                                                                         *)
(* The spec asks for distinct urls in a config and main() does not check  *)
(* it: `unique` says whether the operator keeps to it in a behaviour.     *)
(***************************************************************************)
EXTENDS Integers, Sequences, FiniteSets, TLC

(***************************************************************************)
(* Program constants (src/webwatch.py lines 18-26, 142).                  *)
(***************************************************************************)
MAX_RETRIES == 2
RETRY_BACKOFF_S == 2
ALERT_COOLDOWN_S == 0
MAX_DIFF_LINES == 40
MAX_TEXT_CHARS_STORED == 50000
MAX_WATCHES == 50
ERRORS_SHOWN == 10

Min(x, y) == IF x <= y THEN x ELSE y
Max(x, y) == IF x >= y THEN x ELSE y

\* Python floor division x // y for y > 0 (rounds towards minus infinity).
FloorDiv(x, y) == IF x >= 0 THEN x \div y ELSE -((-x + y - 1) \div y)

\* Python slices s[:n] and s[n:] for any integer n (negative n counts from the end).
SliceTo(s, n) ==
    LET e == IF n >= 0 THEN Min(n, Len(s)) ELSE Max(Len(s) + n, 0)
    IN  SubSeq(s, 1, e)
SliceFrom(s, n) ==
    LET b == IF n >= 0 THEN Min(n, Len(s)) ELSE Max(Len(s) + n, 0)
    IN  SubSeq(s, b + 1, Len(s))

(***************************************************************************)
(* Text helpers.                                                           *)
(***************************************************************************)
NL == "\n"

\* str.splitlines(): split at each "\n"; no empty last line after a final "\n".
RECURSIVE splitlines(_)
split_at(s, k) == <<SubSeq(s, 1, k - 1)>> \o splitlines(SubSeq(s, k + 1, Len(s)))
splitlines(s) ==
    IF s = <<>> THEN <<>>
    ELSE IF \A i \in 1..Len(s) : s[i] # NL THEN <<s>>
    ELSE split_at(s, CHOOSE i \in 1..Len(s) : s[i] = NL /\ \A j \in 1..(i - 1) : s[j] # NL)

\* `kw in text` for strings: substring containment.
Contains(text, kw) ==
    \E i \in 0..(Len(text) - Len(kw)) : SubSeq(text, i + 1, i + Len(kw)) = kw

\* hashlib.sha256(s).hexdigest(): a digest, one per text (no collisions).
sha256(s) == [sha256 |-> s]

\* A variant that stores the text whole; C17 tells it apart.
clamp_text_whole(s) == s

\* Lines 82-83: s[:MAX_TEXT_CHARS_STORED].
clamp_text(s) == SliceTo(s, MAX_TEXT_CHARS_STORED)

(***************************************************************************)
(* difflib.unified_diff(a, b, "before", "after", lineterm = "") for lists *)
(* of fewer than 200 lines (no autojunk), n = 3 lines of context.         *)
(* Indices are 0-based as in difflib: a[i] of Python is a[i + 1] here.    *)
(***************************************************************************)
CONTEXT_N == 3

\* Length of the longest common run of a[i:ahi] and b[j:bhi] starting at i, j.
RECURSIVE MatchLen(_, _, _, _, _, _)
MatchLen(a, b, i, j, ahi, bhi) ==
    IF i < ahi /\ j < bhi /\ a[i + 1] = b[j + 1]
    THEN 1 + MatchLen(a, b, i + 1, j + 1, ahi, bhi)
    ELSE 0

\* The best of the matches ml (start pair -> length): the longest, then the least i,
\* then the least j; the empty match at (alo, blo) when there is none.
best_match(ml, alo, blo) ==
    IF \A p \in DOMAIN ml : ml[p] = 0 THEN [i |-> alo, j |-> blo, k |-> 0]
    ELSE LET best == CHOOSE p \in DOMAIN ml : \A q \in DOMAIN ml :
                          \/ ml[p] > ml[q]
                          \/ ml[p] = ml[q] /\ p[1] < q[1]
                          \/ ml[p] = ml[q] /\ p[1] = q[1] /\ p[2] <= q[2]
         IN  [i |-> best[1], j |-> best[2], k |-> ml[best]]

\* SequenceMatcher.find_longest_match.
find_longest_match(a, b, alo, ahi, blo, bhi) ==
    best_match([p \in (alo..(ahi - 1)) \X (blo..(bhi - 1)) |->
                    MatchLen(a, b, p[1], p[2], ahi, bhi)], alo, blo)

\* SequenceMatcher.get_matching_blocks, before the final (la, lb, 0) block:
\* the longest match m of the region, then the regions left and right of it.
RECURSIVE matching_blocks(_, _, _, _, _, _)
around_match(a, b, alo, ahi, blo, bhi, m) ==
    IF m.k = 0 THEN <<>>
    ELSE (IF alo < m.i /\ blo < m.j
          THEN matching_blocks(a, b, alo, m.i, blo, m.j) ELSE <<>>)
         \o <<m>>
         \o (IF m.i + m.k < ahi /\ m.j + m.k < bhi
             THEN matching_blocks(a, b, m.i + m.k, ahi, m.j + m.k, bhi) ELSE <<>>)
matching_blocks(a, b, alo, ahi, blo, bhi) ==
    around_match(a, b, alo, ahi, blo, bhi, find_longest_match(a, b, alo, ahi, blo, bhi))

\* The loop of get_matching_blocks that joins adjacent blocks.
RECURSIVE collapse(_, _, _)
collapse(blocks, n, cur) ==
    IF n > Len(blocks) THEN (IF cur.k > 0 THEN <<cur>> ELSE <<>>)
    ELSE IF cur.i + cur.k = blocks[n].i /\ cur.j + cur.k = blocks[n].j
    THEN collapse(blocks, n + 1, [cur EXCEPT !.k = cur.k + blocks[n].k])
    ELSE (IF cur.k > 0 THEN <<cur>> ELSE <<>>) \o collapse(blocks, n + 1, blocks[n])

get_matching_blocks(a, b) ==
    collapse(matching_blocks(a, b, 0, Len(a), 0, Len(b)), 1, [i |-> 0, j |-> 0, k |-> 0])
        \o <<[i |-> Len(a), j |-> Len(b), k |-> 0]>>

Opcode(tag, i1, i2, j1, j2) == [tag |-> tag, i1 |-> i1, i2 |-> i2, j1 |-> j1, j2 |-> j2]

\* SequenceMatcher.get_opcodes.
block_opcodes(blk, i, j) ==
    (IF i < blk.i /\ j < blk.j THEN <<Opcode("replace", i, blk.i, j, blk.j)>>
     ELSE IF i < blk.i THEN <<Opcode("delete", i, blk.i, j, blk.j)>>
     ELSE IF j < blk.j THEN <<Opcode("insert", i, blk.i, j, blk.j)>>
     ELSE <<>>)
    \o (IF blk.k > 0
        THEN <<Opcode("equal", blk.i, blk.i + blk.k, blk.j, blk.j + blk.k)>>
        ELSE <<>>)

RECURSIVE opcodes_from(_, _, _, _)
opcodes_from(blocks, n, i, j) ==
    IF n > Len(blocks) THEN <<>>
    ELSE block_opcodes(blocks[n], i, j)
         \o opcodes_from(blocks, n + 1, blocks[n].i + blocks[n].k, blocks[n].j + blocks[n].k)

get_opcodes(a, b) == opcodes_from(get_matching_blocks(a, b), 1, 0, 0)

\* The loop of get_grouped_opcodes: `group` is the open group; the result is the closed groups.
\* The first CONTEXT_N and the last CONTEXT_N lines of an equal block.
head_of(c) == Opcode("equal", c.i1, Min(c.i2, c.i1 + CONTEXT_N), c.j1, Min(c.j2, c.j1 + CONTEXT_N))
tail_of(c) == Opcode("equal", Max(c.i1, c.i2 - CONTEXT_N), c.i2, Max(c.j1, c.j2 - CONTEXT_N), c.j2)

RECURSIVE group_loop(_, _, _)
group_loop(codes, n, group) ==
    IF n > Len(codes)
    THEN (IF group # <<>> /\ ~(Len(group) = 1 /\ group[1].tag = "equal")
          THEN <<group>> ELSE <<>>)
    ELSE IF codes[n].tag = "equal" /\ codes[n].i2 - codes[n].i1 > CONTEXT_N + CONTEXT_N
    THEN <<Append(group, head_of(codes[n]))>> \o group_loop(codes, n + 1, <<tail_of(codes[n])>>)
    ELSE group_loop(codes, n + 1, Append(group, codes[n]))

\* The start of get_grouped_opcodes: never empty, leading and trailing context trimmed.
or_one_equal(codes) == IF codes = <<>> THEN <<Opcode("equal", 0, 1, 0, 1)>> ELSE codes
trim_first(codes) ==
    IF codes[1].tag = "equal" THEN [codes EXCEPT ![1] = tail_of(codes[1])] ELSE codes
trim_last(codes) ==
    IF codes[Len(codes)].tag = "equal"
    THEN [codes EXCEPT ![Len(codes)] = head_of(codes[Len(codes)])] ELSE codes

get_grouped_opcodes(a, b) ==
    group_loop(trim_last(trim_first(or_one_equal(get_opcodes(a, b)))), 1, <<>>)

\* A line of the diff: its prefix (tag), the text after it, and for a hunk header the two ranges.
DiffLine(tag, text, range) == [tag |-> tag, text |-> text, range |-> range]

\* difflib._format_range_unified: <<start>> for one line, else <<start, length>>.
format_range_unified(start, stop) ==
    LET length == stop - start
    IN  IF length = 1 THEN <<start + 1>>
        ELSE <<(IF length = 0 THEN start ELSE start + 1), length>>

Prefixed(tag, lines) == [x \in 1..Len(lines) |-> DiffLine(tag, lines[x], <<>>)]

one_opcode_lines(a, b, c) ==
    IF c.tag = "equal" THEN Prefixed(" ", SubSeq(a, c.i1 + 1, c.i2))
    ELSE (IF c.tag \in {"replace", "delete"}
          THEN Prefixed("-", SubSeq(a, c.i1 + 1, c.i2)) ELSE <<>>)
         \o (IF c.tag \in {"replace", "insert"}
             THEN Prefixed("+", SubSeq(b, c.j1 + 1, c.j2)) ELSE <<>>)

RECURSIVE opcode_lines(_, _, _, _)
opcode_lines(a, b, group, n) ==
    IF n > Len(group) THEN <<>>
    ELSE one_opcode_lines(a, b, group[n]) \o opcode_lines(a, b, group, n + 1)

hunk_header(g) ==
    DiffLine("@@", <<>>, <<format_range_unified(g[1].i1, g[Len(g)].i2),
                           format_range_unified(g[1].j1, g[Len(g)].j2)>>)

RECURSIVE hunks(_, _, _, _)
hunks(a, b, groups, n) ==
    IF n > Len(groups) THEN <<>>
    ELSE <<hunk_header(groups[n])>> \o opcode_lines(a, b, groups[n], 1)
         \o hunks(a, b, groups, n + 1)

\* The two file header lines come before the first hunk, if there is one.
with_headers(hunk_lines) ==
    IF hunk_lines = <<>> THEN <<>>
    ELSE <<DiffLine("---", <<"b","e","f","o","r","e">>, <<>>),
           DiffLine("+++", <<"a","f","t","e","r">>, <<>>)>> \o hunk_lines

unified_diff(a, b) == with_headers(hunks(a, b, get_grouped_opcodes(a, b), 1))

(***************************************************************************)
(* make_diff (lines 86-107).  The result is the list of lines that the    *)
(* code joins with "\n"; no line holds a "\n" (splitlines removed them),  *)
(* so the result has as many lines as this list has elements.             *)
(***************************************************************************)
PLACEHOLDER == <<DiffLine("(No textual diff found)", <<>>, <<>>)>>
MARKER == DiffLine("... (diff truncated) ...", <<>>, <<>>)

truncate_diff(diff_lines) ==
    IF Len(diff_lines) > MAX_DIFF_LINES
    THEN SliceTo(diff_lines, FloorDiv(MAX_DIFF_LINES, 2))
         \o <<MARKER>>
         \o SliceFrom(diff_lines, FloorDiv(-MAX_DIFF_LINES, 2))
    ELSE diff_lines

\* A variant without the placeholder; C18 tells it apart.
finish_diff_bare(diff_lines) == truncate_diff(diff_lines)

\* Lines 99-107.
finish_diff(diff_lines) ==
    IF diff_lines = <<>> THEN PLACEHOLDER ELSE truncate_diff(diff_lines)

make_diff(old_text, new_text) ==
    finish_diff(unified_diff(splitlines(old_text), splitlines(new_text)))

(***************************************************************************)
(* Dicts and optional values.  None is <<>>, a present value x is <<x>>.  *)
(***************************************************************************)
NoneV == <<>>
Some(x) == <<x>>
Get(d, k) == IF k \in DOMAIN d THEN Some(d[k]) ELSE NoneV
Put(d, k, v) == (k :> v) @@ d
EmptyDict == <<>>

(***************************************************************************)
(* Bounds of the model.                                                    *)
(***************************************************************************)
TicksPerSec == 2
MaxClock == 6
TestCooldown == 1
MaxTextLen == 2
DiffSlack == 2

\* int(time.time()) for a clock value in ticks.
int_time(t) == t \div TicksPerSec

(***************************************************************************)
(* should_alert_now (lines 126-130), with time.time() = now ticks and     *)
(* ALERT_COOLDOWN_S = cd seconds.  `not last_alert_ts` is true for an     *)
(* absent key and for a stored 0.                                          *)
(***************************************************************************)
should_alert_now(entry, now, cd) ==
    LET last_alert_ts == Get(entry, "last_alert_ts")
    IN  IF last_alert_ts = NoneV \/ last_alert_ts[1] = 0 THEN TRUE
        ELSE now - last_alert_ts[1] * TicksPerSec >= cd * TicksPerSec

(***************************************************************************)
(* fetch_with_retries (lines 110-123).  responses[k] is what request       *)
(* number k meets: Fail(e), the exception e of requests.get or of          *)
(* raise_for_status, or Page(text), a page (already passed through         *)
(* normalize_text, which waits for the lenient HTML parser and is not      *)
(* modelled further).  The result records the requests made and the sleeps *)
(* taken, in order; err is the exception raised when ok is FALSE.          *)
(***************************************************************************)
Page(text) == [ok |-> TRUE, text |-> text]
Fail(e) == [ok |-> FALSE, err |-> e]

\* A variant that waits the same time after every failure; C14 tells it apart.
backoff_flat(attempt) == RETRY_BACKOFF_S

\* Line 122: the sleep after the failure of attempt number `attempt` (from 0).
backoff(attempt) == RETRY_BACKOFF_S * (attempt + 1)

RECURSIVE fetch_attempts(_, _, _, _)
fetch_attempts(responses, attempt, sleeps, last_err) ==
    IF attempt > MAX_RETRIES
    THEN [ok |-> FALSE, text |-> <<>>, err |-> last_err,
          attempts |-> attempt, sleeps |-> sleeps]
    ELSE IF responses[attempt + 1].ok
    THEN [ok |-> TRUE, text |-> responses[attempt + 1].text, err |-> NoneV,
          attempts |-> attempt + 1, sleeps |-> sleeps]
    ELSE fetch_attempts(responses, attempt + 1,
                        IF attempt < MAX_RETRIES
                        THEN Append(sleeps, backoff(attempt))
                        ELSE sleeps,
                        Some(responses[attempt + 1].err))

fetch_with_retries(responses) == fetch_attempts(responses, 0, <<>>, NoneV)

(***************************************************************************)
(* The body of the loop of main() for one watch (lines 154-205).          *)
(* t1 is the clock read by should_alert_now, t2 the one stored as         *)
(* last_alert_ts, t3 the one stored as ts (or the only one read).         *)
(* The result is the new state mapping and the record appended to         *)
(* `changes` or to `errors`, if any.                                       *)
(***************************************************************************)
Outcome(state, change, error) == [state |-> state, change |-> change, error |-> error]

\* Line 158: state.get(w.url, {}).
entry_of(state, url) == IF url \in DOMAIN state THEN state[url] ELSE EmptyDict

\* A variant that keeps only the entry just stored; C19 tells it apart.
store_alone(state, url, entry) == [u \in {url} |-> entry]

\* A variant that updates the stored entry with the new one, key by key, instead of
\* replacing it; C15 tells it apart.
store_merged(state, url, entry) == Put(state, url, entry @@ entry_of(state, url))

\* Lines 167, 173, 176, 185, 198 and 201: state[w.url] = entry.
store(state, url, entry) == Put(state, url, entry)

\* A variant that resets `ts` of the entry when the watch fails; C20 tells it apart.
recorded_touched(w, state, err) ==
    Outcome(Put(state, w.url, Put(entry_of(state, w.url), "ts", 0)),
            NoneV, Some([w |-> w, err |-> err]))

\* Lines 204-205: the exception of a watch becomes an error record; the assignments to
\* state[w.url] all come after the last statement of the try block that can raise.
recorded(w, state, err) == Outcome(state, NoneV, Some([w |-> w, err |-> err]))

\* A variant with the two values swapped in the message; C6 tells it apart.
keyword_message_swapped(w, prev_found, found) ==
    [kind |-> "keyword", keyword |-> w.keyword[1], prev |-> found, new |-> prev_found]

\* Lines 170 and 172: the message of a keyword change, with the values it names.
keyword_message(w, prev_found, found) ==
    [kind |-> "keyword", keyword |-> w.keyword[1], prev |-> prev_found, new |-> found]

\* Line 167 and line 185: the entry of a first observation replaces whatever was stored.
baseline_keyword(found, t3) == [found |-> found, ts |-> int_time(t3)]

\* A variant that stamps an alert on the first observation; C1 tells it apart.
baseline_hash_stamped(h, text, t3) ==
    [hash |-> h, text |-> clamp_text(text), ts |-> int_time(t3),
     last_alert_ts |-> int_time(t3)]

baseline_hash(h, text, t3) == [hash |-> h, text |-> clamp_text(text), ts |-> int_time(t3)]

\* A variant that stamps every change, alerted or not; C16 tells it apart.
stamp_alert_always(entry, alert, t2) == Put(entry, "last_alert_ts", int_time(t2))

\* Lines 171 and 193: the alert stamp, set only when the gate let the change through.
stamp_alert(entry, alert, t2) ==
    IF alert THEN Put(entry, "last_alert_ts", int_time(t2)) ELSE entry

\* Lines 169-174: the entry after a flip of `found`.
changed_keyword(entry, alert, found, t2, t3) ==
    Put(Put(stamp_alert(entry, alert, t2), "found", found), "ts", int_time(t3))

\* A variant that freezes the entry while the alert is suppressed; C4 tells it apart.
changed_hash_frozen(entry, alert, h, text, t2, t3) ==
    IF alert
    THEN Put(Put(Put(Put(entry, "last_alert_ts", int_time(t2)), "hash", h),
                 "text", clamp_text(text)), "ts", int_time(t3))
    ELSE entry

\* Lines 191-198: the entry after a change of the hash.
changed_hash(entry, alert, h, text, t2, t3) ==
    Put(Put(Put(stamp_alert(entry, alert, t2), "hash", h), "text", clamp_text(text)),
        "ts", int_time(t3))

\* A variant that leaves `ts` where it was; C5 tells it apart.
unchanged_entry_stale(entry, t3) == entry

\* Lines 176 and 201: nothing changed, only `ts` moves.
unchanged_entry(entry, t3) == Put(entry, "ts", int_time(t3))

\* Lines 170 and 192: the record appended to `changes` when the gate lets it through.
change_record(w, msg, alert) == IF alert THEN Some([w |-> w, msg |-> msg]) ELSE NoneV

diff_message(diff_text) == [kind |-> "diff", diff |-> diff_text]

\* Lines 163-177, for a watch that has a keyword.
keyword_found(w, state, entry, found, prev_found, t1, t2, t3, cd) ==
    IF prev_found = NoneV
    THEN Outcome(store(state, w.url, baseline_keyword(found, t3)), NoneV, NoneV)
    ELSE IF found # prev_found[1]
    THEN Outcome(store(state, w.url,
                     changed_keyword(entry, should_alert_now(entry, t1, cd), found, t2, t3)),
                 change_record(w, keyword_message(w, prev_found[1], found),
                               should_alert_now(entry, t1, cd)),
                 NoneV)
    ELSE Outcome(store(state, w.url, unchanged_entry(entry, t3)), NoneV, NoneV)

\* Lines 160-177.
keyword_mode(w, state, entry, text, t1, t2, t3, cd) ==
    IF w.keyword = NoneV \/ w.keyword[1] = <<>>
    THEN recorded(w, state, "ValueError")
    ELSE keyword_found(w, state, entry, Contains(text, w.keyword[1]), Get(entry, "found"),
                       t1, t2, t3, cd)

\* Lines 181-202, with h the digest of the text and prev the stored one.
hash_compared(w, state, entry, text, h, prev, t1, t2, t3, cd) ==
    IF prev = NoneV
    THEN Outcome(store(state, w.url, baseline_hash(h, text, t3)), NoneV, NoneV)
    ELSE IF h # prev[1]
    THEN Outcome(store(state, w.url,
                     changed_hash(entry, should_alert_now(entry, t1, cd), h, text, t2, t3)),
                 change_record(w, diff_message(make_diff(IF "text" \in DOMAIN entry
                                                         THEN entry.text ELSE <<>>, text)),
                               should_alert_now(entry, t1, cd)),
                 NoneV)
    ELSE Outcome(store(state, w.url, unchanged_entry(entry, t3)), NoneV, NoneV)

\* Lines 179-202.
hash_mode(w, state, entry, text, t1, t2, t3, cd) ==
    hash_compared(w, state, entry, text, sha256(text), Get(entry, "hash"), t1, t2, t3, cd)

process_watch(w, state, fetched, t1, t2, t3, cd) ==
    IF ~fetched.ok
    THEN recorded(w, state, "FetchError")
    ELSE IF w.mode = "keyword"
    THEN keyword_mode(w, state, entry_of(state, w.url), fetched.text, t1, t2, t3, cd)
    ELSE hash_mode(w, state, entry_of(state, w.url), fetched.text, t1, t2, t3, cd)

\* A variant in which the error of a watch ends the run; C9 tells it apart.
after_watch_raise(error) == IF error # NoneV THEN "crash" ELSE "loop"

\* Lines 204-208: the except clause records the error and the loop goes on.
after_watch(error) == "loop"

(***************************************************************************)
(* The inputs of the model: configurations, pages, notification messages. *)
(***************************************************************************)
TextA == <<"a">>
TextK == <<"k">>
PageTexts == {TextA, TextK}
KEYWORD == <<"k">>

U1 == 1
U2 == 2

HashWatch(u) == [name |-> u, url |-> u]
KeywordWatch(u, kw) == [name |-> u, url |-> u, mode |-> "keyword", keyword |-> kw]
NoKeywordWatch(u) == [name |-> u, url |-> u, mode |-> "keyword"]
\* A second watch, under another name, on an url that is watched already.
SecondWatch(n, u) == [name |-> n, url |-> u]

Config(watches_cfg) == [ntfy_topic |-> "topic", watches |-> watches_cfg]

ValidConfigs ==
    { Config(<<HashWatch(U1), KeywordWatch(U2, KEYWORD)>>),
      Config(<<KeywordWatch(U1, KEYWORD), KeywordWatch(U2, <<>>)>>),
      Config(<<NoKeywordWatch(U1)>>) }

\* main() takes a config in which two watches have the same url; the state has one
\* entry for the two.
SharedUrlConfigs == { Config(<<HashWatch(U1), SecondWatch(U2, U1)>>) }

InvalidConfigs ==
    { [watches |-> <<HashWatch(U1)>>],
      [ntfy_topic |-> "", watches |-> <<HashWatch(U1)>>],
      [ntfy_topic |-> "topic"],
      Config(<<>>),
      Config([n \in 1..(MAX_WATCHES + 1) |-> HashWatch(n)]) }

Configs == ValidConfigs \cup SharedUrlConfigs \cup InvalidConfigs

\* Watch(**w) (lines 51-58, 145): the dataclass with its defaults.
Watch(w) ==
    [name |-> w.name, url |-> w.url,
     mode |-> IF "mode" \in DOMAIN w THEN w.mode ELSE "hash",
     keyword |-> Get(w, "keyword")]

\* A variant that does not ask for a topic; C8 tells it apart.
validate_without_topic(c) ==
    IF "watches" \notin DOMAIN c \/ c.watches = <<>>
    THEN "No watches configured in config.json"
    ELSE IF Len(c.watches) > MAX_WATCHES
    THEN "Config has more than 50 watches; trim to <= 50."
    ELSE ""

\* Lines 135-143: the message of the SystemExit raised, or "" when the config passes.
validate(c) ==
    LET topic == Get(c, "ntfy_topic")
        watches_cfg == IF "watches" \in DOMAIN c THEN c.watches ELSE <<>>
    IN  IF topic = NoneV \/ topic[1] = "" THEN "Missing ntfy_topic in config.json"
        ELSE IF watches_cfg = <<>> THEN "No watches configured in config.json"
        ELSE IF Len(watches_cfg) > MAX_WATCHES
        THEN "Config has more than 50 watches; trim to <= 50."
        ELSE ""

\* What the server may answer to the requests of one fetch_with_retries call:
\* k failures, then a page unless the retries are used up.
RECURSIVE Failures(_)
Failures(k) == IF k = 0 THEN <<>> ELSE <<Fail("Timeout")>> \o Failures(k - 1)
Responses ==
    {Failures(k) \o <<Page(t)>> : k \in 0..MAX_RETRIES, t \in PageTexts}
        \cup {Failures(MAX_RETRIES + 1)}

\* Lines 213-216 and 219-221: the two notifications.
changes_notification(chs) ==
    [priority |-> "high", count |-> Len(chs), blocks |-> chs]
errors_notification(errs) ==
    [priority |-> "low", count |-> Len(errs),
     lines |-> SliceTo(errs, ERRORS_SHOWN),
     extra |-> IF Len(errs) <= ERRORS_SHOWN THEN 0 ELSE Len(errs) - ERRORS_SHOWN]

(***************************************************************************)
(* The state: the two files, the clock, and the process running main().   *)
(***************************************************************************)
VARIABLES
    cfg,        \* config.json, as the current (or last) run read it
    disk,       \* state.json: url -> entry (the empty mapping when there is no file)
    tmp,        \* state.json.tmp: NoneV, or Some(File(mapping, complete))
    clock,      \* time.time(), in ticks
    cooldown,   \* the value the tunable ALERT_COOLDOWN_S is set to
    unique,     \* whether the operator keeps the urls of a config distinct
    pc,         \* where main() is; "idle" when no process runs
    exit,       \* the exit status of the last run, minus the signal if one ended it
    state,      \* main's `state`
    watches,    \* main's `watches`, shuffled
    i,          \* watches processed so far in this run
    changes,    \* main's `changes`
    errors,     \* main's `errors`
    loaded,     \* history: the state mapping this run loaded
    log,        \* history: the I/O of this run, in order
    sent,       \* history: the notifications this run posted
    last,       \* history: the inputs of the last watch processed
    changeAt,   \* history: url -> clock of its latest change record
    call,       \* the arguments of a helper called on its own
    ret         \* its result

vars == <<cfg, disk, tmp, clock, cooldown, unique, pc, exit, state, watches, i,
          changes, errors, loaded, log, sent, last, changeAt, call, ret>>

fileVars == <<cfg, disk, tmp>>
procVars == <<pc, exit, state, watches, i, changes, errors>>
histVars == <<loaded, log, sent, last, changeAt>>
keptVars == <<loaded, changeAt>>
helperVars == <<call, ret>>
mainVars == <<fileVars, clock, cooldown, unique, procVars, histVars>>

NoStep == [kind |-> "none"]
Event(ev, name) == [ev |-> ev, name |-> name]

NoCall == [fn |-> "none"]

\* Nothing has run yet: no state file, no process.
Installed ==
    /\ cfg = [ntfy_topic |-> ""]
    /\ disk = EmptyDict
    /\ tmp = NoneV
    /\ clock = TicksPerSec
    /\ pc = "idle"
    /\ exit = NoneV
    /\ state = EmptyDict
    /\ watches = <<>>
    /\ i = 0
    /\ changes = <<>>
    /\ errors = <<>>
    /\ loaded = EmptyDict
    /\ log = <<>>
    /\ sent = <<>>
    /\ last = NoStep
    /\ changeAt = EmptyDict

Init ==
    /\ Installed
    /\ cooldown \in {ALERT_COOLDOWN_S, TestCooldown}
    /\ unique \in BOOLEAN
    /\ call = NoCall
    /\ ret = <<>>

\* A process that has ended: its memory is gone, and so is the history of its run.
NoProcess ==
    /\ state' = EmptyDict
    /\ watches' = <<>>
    /\ i' = 0
    /\ changes' = <<>>
    /\ errors' = <<>>
    /\ log' = <<>>
    /\ sent' = <<>>
    /\ last' = NoStep

\* main(), lines 134-151, started by the scheduler some time after the last run:
\* load the config (as the operator left it for this run), validate it, build the
\* watches, load the state and shuffle.
Start ==
    /\ pc = "idle"
    /\ clock' \in (clock + 1)..MaxClock
    /\ cfg' \in IF unique THEN Configs \ SharedUrlConfigs ELSE Configs
    /\ loaded' = disk
    /\ IF validate(cfg') # ""
       THEN /\ pc' = "idle"
            /\ exit' = Some(1)
            /\ NoProcess
       ELSE /\ pc' = "loop"
            /\ exit' = NoneV
            /\ state' = disk
            /\ changes' = <<>>
            /\ errors' = <<>>
            /\ i' = 0
            /\ log' = <<>>
            /\ sent' = <<>>
            /\ last' = NoStep
            /\ \E perm \in Permutations(1..Len(cfg'.watches)) :
                   watches' = [k \in 1..Len(cfg'.watches) |-> Watch(cfg'.watches[perm[k]])]
    /\ UNCHANGED <<disk, tmp, cooldown, unique, changeAt, helperVars>>

\* The effect of one turn of the loop: `out` is what process_watch made of the fetch.
TakeOutcome(w, fetched, out, t1, t2, t3) ==
    /\ state' = out.state
    /\ changes' = changes \o out.change
    /\ errors' = errors \o out.error
    /\ pc' = after_watch(out.error)
    /\ clock' = t3
    /\ log' = Append(log, Event("fetch", w.name))
    /\ last' = [kind |-> "step", w |-> w, ok |-> fetched.ok, text |-> fetched.text,
                before |-> Get(state, w.url), t1 |-> t1, t2 |-> t2, t3 |-> t3,
                nchanges |-> Len(changes), nerrors |-> Len(errors),
                prevChangeAt |-> Get(changeAt, w.url)]
    /\ changeAt' = IF out.change # NoneV THEN Put(changeAt, w.url, t1) ELSE changeAt

Turn(w, fetched, t1, t2, t3) ==
    TakeOutcome(w, fetched, process_watch(w, state, fetched, t1, t2, t3, cooldown), t1, t2, t3)

\* One turn of the loop of main(), lines 153-208.  d2 and d3 are the ticks that pass
\* between the reads of the clock.
ProcessWatch ==
    /\ pc = "loop"
    /\ i < Len(watches)
    /\ \E responses \in Responses, d2 \in 0..1, d3 \in 0..1 :
         /\ clock + d2 + d3 <= MaxClock
         /\ Turn(watches[i + 1], fetch_with_retries(responses),
                 clock, clock + d2, clock + d2 + d3)
    /\ i' = i + 1
    /\ UNCHANGED <<fileVars, cooldown, unique, exit, watches, loaded, sent, helperVars>>

\* A file being written: what has reached it, and whether that is all of it.
File(data, complete) == [data |-> data, complete |-> complete]

\* A variant that opens the state file itself for writing; C11 tells it apart.
OpenStateFile ==
    /\ pc = "loop"
    /\ i = Len(watches)
    /\ disk' = EmptyDict
    /\ log' = Append(log, Event("open_tmp", 0))
    /\ pc' = "dump"
    /\ UNCHANGED <<cfg, tmp, clock, cooldown, unique, exit, state, watches, i, changes,
                   errors, loaded, sent, last, changeAt, helperVars>>

\* The loop is over.  save_json (line 210), lines 38-39: open(tmp, "w") creates the
\* temporary file, or truncates the one an earlier run left.
OpenTmp ==
    /\ pc = "loop"
    /\ i = Len(watches)
    /\ tmp' = Some(File(EmptyDict, FALSE))
    /\ log' = Append(log, Event("open_tmp", 0))
    /\ pc' = "dump"
    /\ UNCHANGED <<cfg, disk, clock, cooldown, unique, exit, state, watches, i, changes,
                   errors, loaded, sent, last, changeAt, helperVars>>

\* A variant that saves before the loop is over; C10 tells it apart.
WriteTmpEarly ==
    /\ pc = "loop"
    /\ tmp' = Some(File(state, TRUE))
    /\ log' = Append(log, Event("write_tmp", 0))
    /\ pc' = "replace"
    /\ UNCHANGED <<cfg, disk, clock, cooldown, unique, exit, state, watches, i, changes, errors,
                   loaded, sent, last, changeAt, helperVars>>

\* save_json, line 40 and the end of the with block: the whole mapping is dumped to
\* the temporary file and the file is closed.
WriteTmp ==
    /\ pc = "dump"
    /\ i = Len(watches)
    /\ tmp' = Some(File(state, TRUE))
    /\ log' = Append(log, Event("write_tmp", 0))
    /\ pc' = "replace"
    /\ UNCHANGED <<cfg, disk, clock, cooldown, unique, exit, state, watches, i, changes, errors,
                   loaded, sent, last, changeAt, helperVars>>

\* save_json, line 42: os.replace(tmp, path).
Replace ==
    /\ pc = "replace"
    /\ disk' = tmp[1].data
    /\ tmp' = NoneV
    /\ log' = Append(log, Event("replace", 0))
    /\ pc' = "notify_changes"
    /\ UNCHANGED <<cfg, clock, cooldown, unique, exit, state, watches, i, changes, errors,
                   loaded, sent, last, changeAt, helperVars>>

\* Lines 212-216.  requests.post may raise (no connection, timeout): main() has no
\* handler for it, and the process ends with a traceback and exit code 1.
NotifyChanges ==
    /\ pc = "notify_changes"
    /\ IF changes = <<>>
       THEN /\ pc' = "notify_errors"
            /\ UNCHANGED <<log, sent, exit>>
       ELSE /\ log' = Append(log, Event("notify_high", 0))
            /\ \E posted \in BOOLEAN :
                 IF posted
                 THEN /\ sent' = Append(sent, changes_notification(changes))
                      /\ pc' = "notify_errors"
                      /\ UNCHANGED exit
                 ELSE /\ pc' = "crash"
                      /\ UNCHANGED <<sent, exit>>
    /\ UNCHANGED <<fileVars, clock, cooldown, unique, state, watches, i, changes, errors,
                   loaded, last, changeAt, helperVars>>

\* Lines 218-221.
NotifyErrors ==
    /\ pc = "notify_errors"
    /\ IF errors = <<>>
       THEN /\ pc' = "return"
            /\ UNCHANGED <<log, sent, exit>>
       ELSE /\ log' = Append(log, Event("notify_low", 0))
            /\ \E posted \in BOOLEAN :
                 IF posted
                 THEN /\ sent' = Append(sent, errors_notification(errors))
                      /\ pc' = "return"
                      /\ UNCHANGED exit
                 ELSE /\ pc' = "crash"
                      /\ UNCHANGED <<sent, exit>>
    /\ UNCHANGED <<fileVars, clock, cooldown, unique, state, watches, i, changes, errors,
                   loaded, last, changeAt, helperVars>>

\* Line 223 and 227: return 0, raise SystemExit(0).
Return ==
    /\ pc = "return"
    /\ pc' = "idle"
    /\ exit' = Some(0)
    /\ NoProcess
    /\ UNCHANGED <<fileVars, clock, cooldown, unique, keptVars, helperVars>>

\* The exception of requests.post leaves main(): a traceback and exit code 1.
Crash ==
    /\ pc = "crash"
    /\ pc' = "idle"
    /\ exit' = Some(1)
    /\ NoProcess
    /\ UNCHANGED <<fileVars, clock, cooldown, unique, keptVars, helperVars>>

\* The process is terminated from outside, wherever it is.
Kill ==
    /\ pc # "idle"
    /\ pc' = "idle"
    /\ exit' = Some(-9)
    /\ NoProcess
    /\ UNCHANGED <<fileVars, clock, cooldown, unique, keptVars, helperVars>>

Next ==
    \/ Start
    \/ ProcessWatch
    \/ OpenTmp
    \/ WriteTmp
    \/ Replace
    \/ NotifyChanges
    \/ NotifyErrors
    \/ Return
    \/ Crash
    \/ Kill

Spec == Init /\ [][Next]_vars


(***************************************************************************)
(* should_alert_now on its own: the entry, the clock and the cooldown are  *)
(* drawn from bounded sets and the function is applied to them.            *)
(***************************************************************************)
AlertEntries ==
    {EmptyDict, [found |-> TRUE, ts |-> 1]}
    \cup {[last_alert_ts |-> s] : s \in 0..int_time(MaxClock)}
    \cup {[hash |-> sha256(TextA), text |-> TextA, ts |-> s, last_alert_ts |-> s] :
            s \in 0..int_time(MaxClock)}

Cooldowns == {ALERT_COOLDOWN_S} \cup (1..(TestCooldown + 1))

AlertInit ==
    /\ Installed
    /\ cooldown = ALERT_COOLDOWN_S
    /\ unique = TRUE
    /\ call \in {[fn |-> "should_alert_now", entry |-> e, now |-> t, cd |-> c] :
                   e \in AlertEntries, t \in 0..MaxClock, c \in Cooldowns}
    /\ ret = <<>>

CallShouldAlertNow ==
    /\ call.fn = "should_alert_now"
    /\ ret = <<>>
    /\ ret' = Some(should_alert_now(call.entry, call.now, call.cd))
    /\ UNCHANGED <<mainVars, call>>

SpecAlert == AlertInit /\ [][CallShouldAlertNow]_vars

(***************************************************************************)
(* fetch_with_retries on its own, on every sequence of failures and pages  *)
(* that is one answer longer than the attempts the function may make.      *)
(***************************************************************************)
ErrKinds == {"Timeout", "HTTPError"}

Answers == {Fail(e) : e \in ErrKinds} \cup {Page(t) : t \in PageTexts}

RECURSIVE AnswerSeqs(_)
AnswerSeqs(n) ==
    IF n = 0 THEN {<<>>}
    ELSE {Append(r, a) : r \in AnswerSeqs(n - 1), a \in Answers}

FetchInit ==
    /\ Installed
    /\ cooldown = ALERT_COOLDOWN_S
    /\ unique = TRUE
    /\ call \in {[fn |-> "fetch_with_retries", responses |-> r] :
                   r \in AnswerSeqs(MAX_RETRIES + 2)}
    /\ ret = <<>>

CallFetchWithRetries ==
    /\ call.fn = "fetch_with_retries"
    /\ ret = <<>>
    /\ ret' = Some(fetch_with_retries(call.responses))
    /\ UNCHANGED <<mainVars, call>>

SpecFetch == FetchInit /\ [][CallFetchWithRetries]_vars

(***************************************************************************)
(* One turn of the loop on its own, for a hash watch whose page is fetched, *)
(* on texts up to and over MAX_TEXT_CHARS_STORED characters and on stored  *)
(* entries with a text, with an empty text and (state files of other       *)
(* origin) without a text.                                                 *)
(***************************************************************************)
\* n times the character c, as a sequence.
LongText(c, n) == SubSeq([k \in 1..n |-> c], 1, n)

\* The state of this specification holds a text as its runs, <<[c, n], ...>> for n
\* times the character c and so on, which is the same text written shorter: Unpack
\* gives the text back and Pack(Unpack(r)) = r.
RECURSIVE RunsFrom(_, _)
RunsFrom(s, k) ==
    IF k > Len(s) THEN <<>>
    ELSE LET others == {j \in (k + 1)..Len(s) : s[j] # s[k]}
             m == IF others = {} THEN Len(s) + 1
                  ELSE CHOOSE x \in others : \A y \in others : x <= y
         IN  <<[c |-> s[k], n |-> m - k]>> \o RunsFrom(s, m)
Pack(s) == RunsFrom(s, 1)

RECURSIVE Unpack(_)
Unpack(runs) ==
    IF runs = <<>> THEN <<>> ELSE LongText(runs[1].c, runs[1].n) \o Unpack(Tail(runs))

\* The same for the texts inside an entry, a state mapping and an outcome.
PackEntry(e) ==
    [k \in DOMAIN e |-> IF k = "text" THEN Pack(e[k])
                        ELSE IF k = "hash" THEN [sha256 |-> Pack(e[k].sha256)]
                        ELSE e[k]]
UnpackEntry(e) ==
    [k \in DOMAIN e |-> IF k = "text" THEN Unpack(e[k])
                        ELSE IF k = "hash" THEN sha256(Unpack(e[k].sha256))
                        ELSE e[k]]
PackState(st) == [u \in DOMAIN st |-> PackEntry(st[u])]
UnpackState(st) == [u \in DOMAIN st |-> UnpackEntry(st[u])]
PackDiff(d) == [x \in 1..Len(d) |-> [d[x] EXCEPT !.text = Pack(@)]]
UnpackDiff(d) == [x \in 1..Len(d) |-> [d[x] EXCEPT !.text = Unpack(@)]]
PackChange(ch) ==
    IF ch = NoneV THEN NoneV
    ELSE Some([w |-> ch[1].w, msg |-> diff_message(PackDiff(ch[1].msg.diff))])
UnpackChange(ch) ==
    IF ch = NoneV THEN NoneV
    ELSE Some([w |-> ch[1].w, msg |-> diff_message(UnpackDiff(ch[1].msg.diff))])
PackOutcome(out) == Outcome(PackState(out.state), PackChange(out.change), out.error)

StoreTexts ==
    {<<>>, TextA, TextK, <<"a", NL, "k">>}
    \cup {LongText(c, n) : c \in {"a", "k"},
                           n \in MAX_TEXT_CHARS_STORED..(MAX_TEXT_CHARS_STORED + 1)}

StoredEntries ==
    {baseline_hash(sha256(t), t, 0) : t \in StoreTexts}
    \cup {stamp_alert(baseline_hash(sha256(t), t, 0), TRUE, 0) : t \in StoreTexts}
    \cup {[hash |-> sha256(t), ts |-> 0] : t \in {TextA, TextK}}

StoreStates == {EmptyDict} \cup {store(EmptyDict, U1, e) : e \in StoredEntries}

StoreInit ==
    /\ Installed
    /\ cooldown = ALERT_COOLDOWN_S
    /\ unique = TRUE
    /\ call \in {[fn |-> "process_watch", w |-> Watch(HashWatch(U1)),
                   state |-> PackState(st), text |-> Pack(t), now |-> TicksPerSec] :
                   st \in StoreStates, t \in StoreTexts}
    /\ ret = <<>>

CallProcessWatch ==
    /\ call.fn = "process_watch"
    /\ ret = <<>>
    /\ ret' = Some(PackOutcome(process_watch(call.w, UnpackState(call.state),
                                             Page(Unpack(call.text)),
                                             call.now, call.now, call.now, cooldown)))
    /\ UNCHANGED <<mainVars, call>>

SpecStore == StoreInit /\ [][CallProcessWatch]_vars

(***************************************************************************)
(* make_diff on its own, on every pair of short texts and on texts long    *)
(* enough for the diff to reach the budget.                                *)
(***************************************************************************)
RECURSIVE Texts(_)
Texts(n) ==
    IF n = 0 THEN {<<>>}
    ELSE Texts(n - 1) \cup {Append(t, c) : t \in Texts(n - 1), c \in {"a", "b", NL}}

RECURSIVE Lines(_, _)
Lines(c, n) == IF n = 0 THEN <<>> ELSE <<c, NL>> \o Lines(c, n - 1)

HalfBudget == MAX_DIFF_LINES \div 2

LongTexts ==
    {Lines(c, n) : c \in {"a", "b"}, n \in (HalfBudget - DiffSlack)..(HalfBudget + DiffSlack)}

DiffTexts == Texts(MaxTextLen) \cup LongTexts

DiffInit ==
    /\ Installed
    /\ cooldown = ALERT_COOLDOWN_S
    /\ unique = TRUE
    /\ call \in {[fn |-> "make_diff", old_text |-> o, new_text |-> n] :
                   o \in DiffTexts, n \in DiffTexts}
    /\ ret = <<>>

CallMakeDiff ==
    /\ call.fn = "make_diff"
    /\ ret = <<>>
    /\ ret' = make_diff(call.old_text, call.new_text)
    /\ UNCHANGED <<mainVars, call>>

SpecDiff == DiffInit /\ [][CallMakeDiff]_vars

(***************************************************************************)
(* The claims.                                                             *)
(***************************************************************************)
ModeKey(w) == IF w.mode = "keyword" THEN "found" ELSE "hash"

Processed == {watches[k] : k \in 1..i}

ChangesFor(w) == {k \in 1..Len(changes) : changes[k].w = w}
ErrorsFor(w) == {k \in 1..Len(errors) : errors[k].w = w}

\* The last watch processed was fetched, and the entry it found under its url (line 158)
\* had no value of its mode.
LastFirstSeen ==
    /\ last.kind = "step"
    /\ last.ok
    /\ last.w.mode = "keyword" => (last.w.keyword # NoneV /\ last.w.keyword[1] # <<>>)
    /\ last.before = NoneV \/ ModeKey(last.w) \notin DOMAIN last.before[1]

\* C1 -- First observation never alerts.  With the urls of a config distinct, a watch
\* the run has processed whose loaded entry lacks the key of its mode ("hash" or "found")
\* has no record in `changes`, and the entry stored for it once its fetch has succeeded
\* has no "last_alert_ts" -- in both modes, whatever else the loaded entry held.  And in
\* any config, a watch fetched with success that finds no value of its mode under its url
\* adds no record and stores an entry with that value and without "last_alert_ts".
C1_FirstObservationNeverAlerts ==
    /\ unique
       => \A w \in Processed :
            ModeKey(w) \notin DOMAIN entry_of(loaded, w.url)
            => /\ ChangesFor(w) = {}
               /\ ModeKey(w) \in DOMAIN entry_of(state, w.url)
                  => "last_alert_ts" \notin DOMAIN state[w.url]
    /\ LastFirstSeen
       => /\ Len(changes) = last.nchanges
          /\ ChangesFor(last.w) = {}
          /\ ModeKey(last.w) \in DOMAIN state[last.w.url]
          /\ "last_alert_ts" \notin DOMAIN state[last.w.url]

\* A first observation in one mode of an url whose loaded entry, left by the other mode,
\* carried an alert stamp: the stamp is gone from the entry the run saved.
C1_Witness ==
    /\ unique
    /\ LastFirstSeen
    /\ last.before # NoneV
    /\ "last_alert_ts" \in DOMAIN last.before[1]
    /\ last.before[1] = loaded[last.w.url]
    /\ pc = "return"
    /\ "last_alert_ts" \notin DOMAIN disk[last.w.url]

\* C2 -- Cooldown spacing.  With a cooldown of C seconds and the urls of a config
\* distinct, a change record the code takes for an url whose loaded entry carries the
\* stamp of the record before it is taken at least C seconds of clock after that record.
C2_CooldownSpacing ==
    ( /\ unique
      /\ last.kind = "step"
      /\ Len(changes) > last.nchanges
      /\ last.prevChangeAt # NoneV
      /\ last.before # NoneV
      /\ "last_alert_ts" \in DOMAIN last.before[1]
      /\ last.before[1].last_alert_ts >= int_time(last.prevChangeAt[1]) )
    => last.t1 - last.prevChangeAt[1] >= cooldown * TicksPerSec

\* C3 -- should_alert_now returns True exactly when the entry has no "last_alert_ts" or
\* the clock minus the stored "last_alert_ts" is at least the cooldown, and False
\* otherwise, for every stored value (0 included) and every cooldown.
C3_ShouldAlertNowContract ==
    (call.fn = "should_alert_now" /\ ret # <<>>)
    => ret[1] = ( \/ "last_alert_ts" \notin DOMAIN call.entry
                  \/ call.now - call.entry.last_alert_ts * TicksPerSec
                       >= call.cd * TicksPerSec )

HasKeyword(w) == w.keyword # NoneV /\ w.keyword[1] # <<>>

\* What the code compares with the stored value: the digest, or the containment.
Observed(w, text) ==
    IF w.mode = "keyword" THEN Contains(text, w.keyword[1]) ELSE sha256(text)

\* The last watch processed was fetched and gave an observation.
LastObserved ==
    /\ last.kind = "step"
    /\ last.ok
    /\ last.w.mode = "keyword" => HasKeyword(last.w)

\* ... and the entry it found holds a value of its mode to compare with.
LastCompared ==
    /\ LastObserved
    /\ last.before # NoneV
    /\ ModeKey(last.w) \in DOMAIN last.before[1]

LastDiffers ==
    LastCompared /\ Observed(last.w, last.text) # last.before[1][ModeKey(last.w)]

LastSame ==
    LastCompared /\ Observed(last.w, last.text) = last.before[1][ModeKey(last.w)]

LastGate == should_alert_now(last.before[1], last.t1, cooldown)

Stored == state[last.w.url]

\* C4 -- Suppressed alert still tracks state.  When the observation of a watch differs
\* from the stored value and should_alert_now is false, the run has no change record for
\* the watch and the stored "last_alert_ts" is what it was, but "hash" and "text" (or
\* "found") are those of the observation and "ts" is the current time; the same
\* observation at any later time is then unchanged and gives no change record.
C4_SuppressedAlertTracksState ==
    (LastDiffers /\ ~LastGate)
    => /\ Len(changes) = last.nchanges
       /\ ChangesFor(last.w) = {}
       /\ "last_alert_ts" \in DOMAIN Stored
       /\ Stored.last_alert_ts = last.before[1].last_alert_ts
       /\ Stored[ModeKey(last.w)] = Observed(last.w, last.text)
       /\ last.w.mode # "keyword" => Stored.text = clamp_text(last.text)
       /\ Stored.ts = int_time(last.t3)
       /\ \A t \in clock..MaxClock :
            LET again == process_watch(last.w, state, [ok |-> TRUE, text |-> last.text],
                                       t, t, t, cooldown)
            IN  /\ again.change = NoneV
                /\ again.error = NoneV
                /\ again.state[last.w.url] = Put(Stored, "ts", int_time(t))

\* A suppressed change in hash mode and one in keyword mode.
C4_Witness ==
    /\ LastDiffers
    /\ ~LastGate
    /\ last.w.mode # "keyword"
    /\ Stored.hash # last.before[1].hash
    /\ pc = "return"

\* C5 -- Unchanged observation.  The value a successful observation leaves in the entry is
\* that of the text observed; and when the next successful observation of the same watch
\* gives the same value, the run has no change record for the watch and the entry is the
\* stored one ("hash" and "text", or "found", and "last_alert_ts" as they were) but for
\* "ts", which is the time of the observation.
C5_UnchangedObservation ==
    /\ LastObserved => Stored[ModeKey(last.w)] = Observed(last.w, last.text)
    /\ LastSame
       => /\ Len(changes) = last.nchanges
          /\ ChangesFor(last.w) = {}
          /\ Stored = Put(last.before[1], "ts", int_time(last.t3))
          /\ DOMAIN Stored = DOMAIN last.before[1]

\* An unchanged observation of an entry that carries an alert stamp, at a later second.
C5_Witness ==
    /\ LastSame
    /\ "last_alert_ts" \in DOMAIN last.before[1]
    /\ Stored.ts > last.before[1].ts
    /\ Stored.last_alert_ts = last.before[1].last_alert_ts

\* C6 -- Keyword flip.  For a keyword watch with a stored "found" p, a successful
\* observation with containment f # p that the gate lets through gives exactly one change
\* record for the watch in the run, naming p as the previous value and f as the new one,
\* and the stored "found" is f.
C6_KeywordFlip ==
    (LastDiffers /\ last.w.mode = "keyword" /\ LastGate)
    => /\ Len(changes) = last.nchanges + 1
       /\ Cardinality(ChangesFor(last.w)) = 1
       /\ changes[Len(changes)] =
            [w |-> last.w,
             msg |-> [kind |-> "keyword", keyword |-> last.w.keyword[1],
                      prev |-> last.before[1].found,
                      new |-> Contains(last.text, last.w.keyword[1])]]
       /\ Stored.found = Contains(last.text, last.w.keyword[1])

\* The keyword was absent and is now present: one record reading False -> True, posted.
C6_Witness ==
    /\ LastDiffers
    /\ last.w.mode = "keyword"
    /\ Len(changes) = 1
    /\ changes[1].msg.kind = "keyword"
    /\ changes[1].msg.prev = FALSE
    /\ changes[1].msg.new = TRUE
    /\ Len(sent) = 1
    /\ sent[1].blocks = changes

MarkerAt(lines) == {k \in 1..Len(lines) : lines[k] = MARKER}

\* C7 -- Diff budget.  For every pair of texts the result of make_diff has at most
\* MAX_DIFF_LINES lines, and when the raw diff has more than MAX_DIFF_LINES lines the
\* truncation marker is in it exactly once, right after the kept head.
C7_DiffBudget ==
    (call.fn = "make_diff" /\ ret # <<>>)
    => /\ Len(ret) <= MAX_DIFF_LINES
       /\ Len(unified_diff(splitlines(call.old_text), splitlines(call.new_text)))
            > MAX_DIFF_LINES
          => MarkerAt(ret) = {HalfBudget + 1}

RunStarted == pc # "idle" \/ exit # NoneV

InvalidConfig(c) ==
    \/ "ntfy_topic" \notin DOMAIN c
    \/ c.ntfy_topic = ""
    \/ "watches" \notin DOMAIN c
    \/ c.watches = <<>>
    \/ Len(c.watches) > MAX_WATCHES

\* C8 -- Validation abort.  A run on a config without a topic, without watches or with
\* more than 50 watches is over with exit status 1, having fetched nothing, posted
\* nothing and left the state file as it was.
C8_ValidationAbort ==
    (RunStarted /\ InvalidConfig(cfg))
    => /\ pc = "idle"
       /\ exit = Some(1)
       /\ log = <<>>
       /\ sent = <<>>
       /\ disk = loaded

\* A run on 51 watches, aborted, with a state file that earlier runs had written.
C8_Witness ==
    /\ exit = Some(1)
    /\ pc = "idle"
    /\ "watches" \in DOMAIN cfg
    /\ Len(cfg.watches) = MAX_WATCHES + 1
    /\ disk # EmptyDict

PastLoop == pc \in {"dump", "replace", "notify_changes", "notify_errors", "return", "crash"}

FetchesOf(w) == {k \in 1..Len(log) : log[k] = Event("fetch", w.name)}

LastFailed ==
    /\ last.kind = "step"
    /\ ~last.ok \/ (last.w.mode = "keyword" /\ ~HasKeyword(last.w))

\* C9 -- Per-target failure isolation.  In a run that passed validation the shuffled order
\* holds every configured watch once; the watches are fetched once each, in that order,
\* and the run does not leave the loop before the last of them; a watch whose fetch
\* failed, or a keyword watch without a keyword, has added one record to `errors` and
\* none to `changes`.
C9_FailureIsolation ==
    /\ pc # "idle"
       => /\ Len(watches) = Len(cfg.watches)
          /\ \A n \in 1..Len(cfg.watches) :
               Cardinality({k \in 1..Len(watches) : watches[k] = Watch(cfg.watches[n])}) = 1
          /\ \A k \in 1..Len(watches) :
               Cardinality(FetchesOf(watches[k])) = IF k <= i THEN 1 ELSE 0
    /\ PastLoop => i = Len(watches)
    /\ LastFailed
       => /\ Len(errors) = last.nerrors + 1
          /\ errors[Len(errors)].w = last.w
          /\ Cardinality(ErrorsFor(last.w)) = 1
          /\ Len(changes) = last.nchanges
          /\ ChangesFor(last.w) = {}
          /\ pc = "loop" \/ PastLoop

\* The first watch of the order failed and the second one was still observed and stored.
C9_Witness ==
    /\ PastLoop
    /\ Len(watches) = 2
    /\ Len(errors) = 1
    /\ errors[1].w = watches[1]
    /\ LastObserved
    /\ last.w = watches[2]
    /\ Stored.ts = int_time(last.t3)

At(ev) == {k \in 1..Len(log) : log[k].ev = ev}

SaveInOrder ==
    /\ Cardinality(At("replace")) <= 1
    /\ pc \in {"notify_changes", "notify_errors", "return", "crash"}
       => Cardinality(At("replace")) = 1
    /\ \A k \in At("replace") :
         /\ Cardinality(At("fetch")) = Len(watches)
         /\ \A n \in At("fetch") : n < k
         /\ \A n \in At("notify_high") \cup At("notify_low") : k < n
         /\ disk = state
    /\ (pc # "idle" /\ At("replace") = {}) => disk = loaded

EndsBeforeSave == pc # "idle" /\ pc' = "idle" /\ At("replace") = {}

\* C10 -- Single save at the end.  A run that passed validation replaces the state file
\* at most once, and once before it posts or returns: after the fetch of every watch and
\* before any notification; until then the file is the state loaded at the start, and a
\* run that ends before the replacement leaves it so.
C10_SingleSaveAtEnd ==
    /\ []SaveInOrder
    /\ [][EndsBeforeSave => (disk' = disk /\ disk' = loaded')]_vars

\* A run that saved a state other than the loaded one and then posted its changes.
C10_Witness ==
    /\ pc = "return"
    /\ disk # loaded
    /\ Len(sent) >= 1
    /\ At("replace") # {}
    /\ Len(watches) = 2

\* The temporary file holds a write that did not finish.
TmpPartial == tmp # NoneV /\ ~tmp[1].complete

SaveStep == pc = "replace" /\ tmp = Some(File(state, TRUE)) /\ disk' = state

\* C11 -- Atomic save.  With one process running, the state file holds at every moment
\* either the whole mapping committed before the run or the whole new mapping: its
\* content changes only in the replace step, which installs the completely written
\* temporary file, and a run that ends at any step, by a crash too, leaves it as it was.
C11_AtomicSave ==
    /\ [](pc # "idle" => disk \in {loaded, state})
    /\ [][disk' # disk => SaveStep]_vars
    /\ [][pc' = "idle" => disk' = disk]_vars

\* Killed while the temporary file was being written, over a state file that held
\* entries: the state file still holds them.
C11_Witness ==
    /\ pc = "idle"
    /\ exit = Some(-9)
    /\ TmpPartial
    /\ disk # EmptyDict
    /\ disk = loaded

\* The process has left the notification code, by return or by an exception.
RunOver == pc \in {"return", "crash"}

Posts(ev) == Cardinality(At(ev))

\* C12 -- Notification count.  A run posts one high-priority notification when it has
\* change records and none otherwise, one low-priority notification when it has error
\* records and none otherwise; the low-priority message lists the first 10 error
\* records and counts the remaining ones, total minus 10, when there are more.
\* Stated of the configs whose urls are distinct.
C12_NotificationCount ==
    (RunOver /\ unique) =>
        /\ Posts("notify_high") = (IF changes # <<>> THEN 1 ELSE 0)
        /\ Posts("notify_low") = (IF errors # <<>> THEN 1 ELSE 0)
        /\ \A k \in 1..Len(sent) :
             sent[k].priority = "low" =>
                 /\ sent[k].lines = SliceTo(errors, 10)
                 /\ sent[k].extra = Max(0, Len(errors) - 10)

\* C13 -- Exit code.  A run that passed validation and ends of its own accord ends with
\* exit code 0, whatever errors its watches had and whatever became of its posts.
C13_ExitCodeZero ==
    [][(pc # "idle" /\ pc' = "idle" /\ exit' # Some(-9)) => exit' = Some(0)]_vars

\* The requests of the call that failed before the first page, all of them if no page
\* came within the attempts allowed.
FailedFirst(responses) ==
    IF \E k \in 1..(MAX_RETRIES + 1) : responses[k].ok
    THEN (CHOOSE k \in 1..(MAX_RETRIES + 1) :
            responses[k].ok /\ \A n \in 1..(k - 1) : ~responses[n].ok) - 1
    ELSE MAX_RETRIES + 1

FetchReturned == call.fn = "fetch_with_retries" /\ ret # <<>>

\* C14 -- Bounded retry.  fetch_with_retries makes at most MAX_RETRIES + 1 attempts; it
\* returns the page of the first attempt that succeeds and makes none after it; after
\* failed attempt number k, for k <= MAX_RETRIES, it sleeps RETRY_BACKOFF_S * k, and it
\* does not sleep after the last attempt allowed; when every attempt fails it raises the
\* error of the last one.
C14_BoundedRetry ==
    FetchReturned =>
        LET r == ret[1]
            f == FailedFirst(call.responses)
        IN /\ r.attempts <= MAX_RETRIES + 1
           /\ r.ok = (f <= MAX_RETRIES)
           /\ r.ok => (r.attempts = f + 1 /\ r.text = call.responses[f + 1].text)
           /\ Len(r.sleeps) = Min(f, MAX_RETRIES)
           /\ \A k \in 1..Len(r.sleeps) : r.sleeps[k] = RETRY_BACKOFF_S * k
           /\ ~r.ok => /\ r.attempts = MAX_RETRIES + 1
                       /\ r.err = Some(call.responses[MAX_RETRIES + 1].err)

\* Two failures with different errors, then a page, and more pages that are never
\* asked for: the page of the third attempt comes back after sleeps of 1 and 2 units.
C14_Witness ==
    /\ FetchReturned
    /\ ret[1].ok
    /\ ret[1].attempts = MAX_RETRIES + 1
    /\ Len(ret[1].sleeps) = MAX_RETRIES
    /\ call.responses[1].err # call.responses[2].err
    /\ call.responses[MAX_RETRIES + 2].ok
    /\ call.responses[MAX_RETRIES + 2].text # ret[1].text

OtherKey(w) == IF w.mode = "keyword" THEN "hash" ELSE "found"

\* The entry holds the value of one mode and not of the other.
OneShape(e) == ("hash" \in DOMAIN e) # ("found" \in DOMAIN e)

ShapeOf(w, e) == ModeKey(w) \in DOMAIN e /\ OtherKey(w) \notin DOMAIN e

\* The run has saved and posted; its list of watches is the config it ran with.
RunSaved == pc = "return" /\ unique

\* C15 -- Entry shape, as claimed.  From an empty state, after any sequence of runs, also
\* with modes changed in the config and with fetches that fail, every persisted entry
\* has exactly one of `hash` and `found`, and it is the key of the current mode of the
\* watch configured for its url.
C15_EntryShape ==
    RunSaved =>
        \A u \in DOMAIN disk :
            /\ OneShape(disk[u])
            /\ \A k \in 1..Len(watches) :
                 watches[k].url = u => ModeKey(watches[k]) \in DOMAIN disk[u]

\* C15 -- Entry shape, amended.  From an empty state, every entry, in memory and
\* persisted, has exactly one of `hash` and `found` at every moment; an observation
\* leaves the entry of its url with the key of the mode of its watch, and after a run the
\* persisted entry of every watch that the run did not record an error for has the key
\* of the mode of that watch.
C15_EntryShapeObserved ==
    /\ \A u \in DOMAIN disk : OneShape(disk[u])
    /\ \A u \in DOMAIN state : OneShape(state[u])
    /\ LastObserved => ShapeOf(last.w, Stored)
    /\ RunSaved =>
         \A k \in 1..Len(watches) :
             ErrorsFor(watches[k]) = {}
                 => /\ watches[k].url \in DOMAIN disk
                    /\ ShapeOf(watches[k], disk[watches[k].url])

\* A watch in keyword mode has observed a url whose loaded entry was of hash mode, with
\* an alert stamp; the run has saved the entry in keyword shape.
C15_Witness ==
    /\ RunSaved
    /\ LastObserved
    /\ last.w.mode = "keyword"
    /\ last.w.url \in DOMAIN loaded
    /\ "hash" \in DOMAIN loaded[last.w.url]
    /\ "last_alert_ts" \in DOMAIN loaded[last.w.url]
    /\ ShapeOf(last.w, disk[last.w.url])

AlertStamp(e) == Get(e, "last_alert_ts")

\* The entry the last watch processed found under its url, and the one it left there.
EntryBefore == IF last.before = NoneV THEN EmptyDict ELSE last.before[1]
EntryAfter == entry_of(state, last.w.url)

LastAppended == last.kind = "step" /\ Len(changes) = last.nchanges + 1

\* C16 -- Timestamp lifecycle, as claimed.  A successful observation sets `ts` of its
\* entry to the time of the observation, changed or not; `last_alert_ts` takes a new
\* value only when a change record is appended for the url, and in every other case
\* (baseline, unchanged, suppressed change, failed fetch) it keeps the value it had when
\* the run started.  Stated of the configs whose urls are distinct, where the entry a
\* watch finds is the loaded one.
C16_TimestampLifecycle ==
    (last.kind = "step" /\ unique) =>
        /\ LastObserved => Stored.ts = int_time(last.t3)
        /\ ~LastAppended =>
               AlertStamp(EntryAfter) = AlertStamp(entry_of(loaded, last.w.url))

\* C16 -- Timestamp lifecycle, amended.  A successful observation sets `ts` of its entry
\* to the time of the observation, changed or not; a change record is appended only for
\* a changed observation that the gate lets through, and `last_alert_ts` is then the
\* time of the alert; an unchanged observation, a suppressed change and a failed watch
\* leave `last_alert_ts` as the watch found it; a first observation stores an entry
\* without `last_alert_ts`, whatever the entry it replaces held.
C16_TimestampLifecycleAmended ==
    last.kind = "step" =>
        /\ LastObserved => Stored.ts = int_time(last.t3)
        /\ LastAppended =>
               /\ LastDiffers /\ LastGate
               /\ AlertStamp(EntryAfter) = Some(int_time(last.t2))
        /\ (~LastAppended /\ ~LastFirstSeen) => AlertStamp(EntryAfter) = AlertStamp(EntryBefore)
        /\ LastFirstSeen => AlertStamp(EntryAfter) = NoneV
        /\ unique => EntryBefore = entry_of(loaded, last.w.url)

\* A first observation in a new mode has replaced an entry that held an alert stamp.
C16_Witness ==
    /\ LastFirstSeen
    /\ unique
    /\ AlertStamp(EntryBefore) # NoneV
    /\ AlertStamp(EntryAfter) = NoneV
    /\ Stored.ts = int_time(last.t3)
    /\ pc = "return"


WatchReturned == call.fn = "process_watch" /\ ret # <<>>

\* The text fetched, the entry the watch found under its url, and what the turn gave:
\* the entry it left there and the change record.
CallText == Unpack(call.text)
CallEntry == UnpackEntry(entry_of(call.state, call.w.url))
RetEntry == UnpackEntry(ret[1].state[call.w.url])
RetChange == UnpackChange(ret[1].change)

\* The turn stored a digest: a first observation, or one whose digest is not the stored.
SetsHash == "hash" \notin DOMAIN CallEntry \/ CallEntry.hash # sha256(CallText)

IsPrefix(p, s) == Len(p) <= Len(s) /\ p = SubSeq(s, 1, Len(p))

\* C17 -- Stored text bound.  The entry of a hash watch holds a `text` of at most
\* MAX_TEXT_CHARS_STORED characters that is a prefix of the normalized text of the
\* observation that last set `hash`, while `hash` is the digest of the whole text; an
\* unchanged observation leaves both; the diff of a changed observation is taken
\* between the stored text and the whole current text.
C17_StoredTextBound ==
    WatchReturned =>
        /\ ret[1].error = NoneV
        /\ SetsHash =>
             /\ RetEntry.hash = sha256(CallText)
             /\ Len(RetEntry.text) <= MAX_TEXT_CHARS_STORED
             /\ IsPrefix(RetEntry.text, CallText)
             /\ Len(RetEntry.text) < Len(CallText)
                  => Len(RetEntry.text) = MAX_TEXT_CHARS_STORED
        /\ ~SetsHash =>
             /\ RetEntry.hash = CallEntry.hash
             /\ Get(RetEntry, "text") = Get(CallEntry, "text")
        /\ (RetChange # NoneV /\ "text" \in DOMAIN CallEntry) =>
             /\ RetChange[1].msg.diff = make_diff(CallEntry.text, CallText)
             /\ (/\ splitlines(CallText) # splitlines(clamp_text(CallText))
                 /\ splitlines(CallEntry.text) = splitlines(clamp_text(CallText)))
                  => RetChange[1].msg.diff # PLACEHOLDER

\* A text one character over the bound replaced a stored text that is its first
\* MAX_TEXT_CHARS_STORED characters: the entry holds the same text again, the new
\* digest, and the change record holds a diff, of the stored line and the whole new one.
C17_Witness ==
    /\ WatchReturned
    /\ Len(CallText) = MAX_TEXT_CHARS_STORED + 1
    /\ "text" \in DOMAIN CallEntry
    /\ CallEntry.text = clamp_text(CallText)
    /\ RetEntry.text = CallEntry.text
    /\ RetEntry.hash # CallEntry.hash
    /\ RetChange # NoneV
    /\ Len(RetChange[1].msg.diff) = 5


\* The digest of the text fetched is not the stored one, and the entry has no `text`
\* or an empty one.
StoredTextMissing ==
    /\ WatchReturned
    /\ "hash" \in DOMAIN CallEntry
    /\ CallEntry.hash # sha256(CallText)
    /\ "text" \in DOMAIN CallEntry => CallEntry.text = <<>>

\* C18 -- Placeholder on missing stored text, as claimed.  When the digest of a hash
\* watch differs from the stored one and the stored entry has no `text` or an empty one,
\* the change message is the placeholder "(No textual diff found)" and no error is
\* recorded.
C18_PlaceholderOnMissingText ==
    StoredTextMissing =>
        /\ ret[1].error = NoneV
        /\ RetChange # NoneV
        /\ RetChange[1].msg.diff = PLACEHOLDER

\* The lines of a diff that adds every line of `lines` to nothing.
AllAdded(diff, lines) ==
    /\ Len(diff) = Len(lines) + 3
    /\ diff[1].tag = "---" /\ diff[2].tag = "+++" /\ diff[3].tag = "@@"
    /\ \A x \in 1..Len(lines) : diff[x + 3] = DiffLine("+", lines[x], <<>>)

\* C18 -- Placeholder on missing stored text, amended.  When the digest of a hash watch
\* differs from the stored one and the stored entry has no `text` or an empty one, no
\* error is recorded and the change message is the diff of the empty text and the
\* current text: every line of the current text as an addition (cut to the budget like
\* any diff), and the placeholder only when the current text has no line.
C18_DiffAgainstEmptyText ==
    StoredTextMissing =>
        /\ ret[1].error = NoneV
        /\ RetChange # NoneV
        /\ RetChange[1].msg.diff = make_diff(<<>>, CallText)
        /\ (RetChange[1].msg.diff = PLACEHOLDER) = (splitlines(CallText) = <<>>)
        /\ (splitlines(CallText) # <<>> /\ Len(splitlines(CallText)) + 3 <= MAX_DIFF_LINES)
             => AllAdded(RetChange[1].msg.diff, splitlines(CallText))

\* A page that was empty at its first observation now has two lines: the message adds
\* the two lines.
C18_Witness ==
    /\ StoredTextMissing
    /\ "text" \in DOMAIN CallEntry
    /\ Len(splitlines(CallText)) = 2
    /\ Len(RetChange[1].msg.diff) = 5
    /\ RetChange[1].msg.diff[5].tag = "+"


ConfiguredUrls == {watches[k].url : k \in 1..Len(watches)}

\* The mapping keeps every key of the loaded one, and the entries of the urls that no
\* watch of the run is configured for.
KeepsLoaded(mapping) ==
    /\ DOMAIN loaded \subseteq DOMAIN mapping
    /\ \A u \in DOMAIN loaded \ ConfiguredUrls : mapping[u] = loaded[u]

\* C19 -- Orphaned entries kept.  A run removes no key from the state mapping and leaves
\* the entry of every loaded url that its config does not name as it was, in memory all
\* through the run and in the file it saves: the keys saved include the keys loaded.
C19_OrphanedEntriesKept ==
    /\ pc # "idle" => KeepsLoaded(state)
    /\ At("replace") # {} => KeepsLoaded(disk)

\* A run whose config names url 1 only has saved a new entry for it, next to the entry
\* of url 2 that an earlier run left.
C19_Witness ==
    /\ pc = "return"
    /\ U2 \in DOMAIN loaded
    /\ ConfiguredUrls = {U1}
    /\ disk[U2] = loaded[U2]
    /\ disk # loaded

\* C20 -- No state change on a per-target error.  When the processing of a watch ends in
\* a recorded error (the fetch failed, or the watch is in keyword mode without keyword),
\* the run has one more error record, for that watch, and no more change records, and
\* the entry of the url is what it was before, `ts` and `last_alert_ts` too; there is no
\* entry if there was none; and what the run saves for the url of a watch with an error
\* is what it loaded.
C20_NoStateChangeOnError ==
    /\ LastFailed =>
         /\ Get(state, last.w.url) = last.before
         /\ Len(errors) = last.nerrors + 1
         /\ errors[Len(errors)].w = last.w
         /\ Len(changes) = last.nchanges
    /\ RunSaved =>
         \A k \in 1..Len(watches) :
             ErrorsFor(watches[k]) # {}
                 => Get(disk, watches[k].url) = Get(loaded, watches[k].url)

\* The fetch of a url failed whose entry held an alert stamp, and the run has saved.
C20_Witness ==
    /\ RunSaved
    /\ LastFailed
    /\ ~last.ok
    /\ last.before # NoneV
    /\ "last_alert_ts" \in DOMAIN last.before[1]
    /\ disk[last.w.url] = last.before[1]

====
